---- MODULE Spec2Model ----
(***************************************************************************)
(* Model of the sale / auto-renewal notification passes of                 *)
(* sale_actions/src/processing.rs: the aggregation pipelines that resolve  *)
(* the eligible events, the per-record decode / validate / POST loop, and  *)
(* the end-of-pass insert_many of the processed markers; and of to_hex of   *)
(* sale_actions/src/utils.rs.                                              *)
(***************************************************************************)
EXTENDS Integers, Sequences, FiniteSets, TLC

\* ------------------------------------------------------------------ bounds

\* passes started in one behaviour
MaxPasses == 2
\* getMore errors the cursor of one pass reports
MaxCursorErrs == 1

\* significant bytes of the field elements to_hex is applied to
MaxBytes == 3

\* events the upstream writer adds to the store during a behaviour
MaxArrivals == 1

\* the workers that can run a pass
Workers == {"w1", "w2"}

\* ------------------------------------------------------------ store content

Metas == {"M1", "M2", "M3"}

\* BSON type of the price field of a sales document: SaleDoc wants f64
PriceTypes == {"double", "string"}

\* BSON type of the allowance field of a renewal document: the struct wants String
AllowanceTypes == {"string", "int32"}

\* an i64 number of seconds since the epoch, held as days * 86400 + sod with
\* 0 <= sod < 86400 so that timestamps beyond 32 bits can be written
Timestamp(days, sod) == [days |-> days, sod |-> sod]

\* the timestamp of n seconds
Secs(n) == Timestamp(n \div 86400, n % 86400)

\* a document of the "sales" collection; exp is its expiry field
SaleEvent(id, tx, mh, dom, exp, pt) ==
    [_id |-> id, tx_hash |-> tx, meta_hash |-> mh, domain |-> dom,
     expiry |-> exp, has_expiry |-> TRUE, price_type |-> pt]

\* the sales document without its expiry field
WithoutExpiry(sale) == [sale EXCEPT !.has_expiry = FALSE]

\* a document of the "auto_renew_updates" collection
RenewalEvent(id, tx, mh, dom, ren, alw, at) ==
    [_id |-> id, tx_hash |-> tx, meta_hash |-> mh, domain |-> dom,
     renewer |-> ren, allowance |-> alw, allowance_type |-> at]

\* the "metadata" collection: M1 has one record with a valid address, M2 has
\* two records the first of which is invalid, M3 has none
MetadataColl ==
    << [meta_hash |-> "M1", email |-> "a@b.com"],
       [meta_hash |-> "M2", email |-> "not-an-email"],
       [meta_hash |-> "M2", email |-> "c@d.org"] >>

\* the "email_groups" collection: T1 has two groups, T3 one, T2 none
EmailGroupsColl ==
    << [tx_hash |-> "T1", group |-> "vip"],
       [tx_hash |-> "T3", group |-> "solo"],
       [tx_hash |-> "T1", group |-> "og"] >>

\* conf.email.base_url and conf.email.api_key
base_url == "https://mail.example/api/subscribers"
api_key == "KEY"

\* --------------------------------------------------------------- helpers

\* the documents of collection coll whose field f equals v, in collection order
SelectDocs(coll, f, v) == SelectSeq(coll, LAMBDA x : x[f] = v)

\* $lookup: every input document gains field as, the array of the documents
\* of collection from whose foreignField equals the input's localField
Lookup(docs, from, localField, foreignField, as) ==
    [i \in 1..Len(docs) |->
        docs[i] @@ (as :> SelectDocs(from, foreignField, docs[i][localField]))]

\* the $match stage that lets every document through
match_all(docs, field) == docs

\* $match { field: { $ne: [] } }
MatchNeEmpty(docs, field) == SelectSeq(docs, LAMBDA x : x[field] # <<>>)

\* $match { field: { $eq: [] } }
MatchEqEmpty(docs, field) == SelectSeq(docs, LAMBDA x : x[field] = <<>>)

\* $addFields { same_tx_groups: "$same_tx_groups.group" }
AddGroupField(docs) ==
    [i \in 1..Len(docs) |->
        [docs[i] EXCEPT !.same_tx_groups =
            [j \in 1..Len(docs[i].same_tx_groups) |-> docs[i].same_tx_groups[j].group]]]

\* sale_pipeline without the anti-join on the processed collection
sale_pipeline_no_antijoin(d) ==
    LET s1 == Lookup(d.sales, d.metadata, "meta_hash", "meta_hash", "metadata")
        s2 == MatchNeEmpty(s1, "metadata")
        s3 == Lookup(s2, d.processed, "meta_hash", "meta_hash", "processed_doc")
        s5 == Lookup(s3, d.email_groups, "tx_hash", "tx_hash", "same_tx_groups")
    IN  AddGroupField(s5)

\* sale_pipeline without the $match on the joined metadata
sale_pipeline_no_metadata_match(d) ==
    LET s1 == Lookup(d.sales, d.metadata, "meta_hash", "meta_hash", "metadata")
        s3 == Lookup(s1, d.processed, "meta_hash", "meta_hash", "processed_doc")
        s4 == MatchEqEmpty(s3, "processed_doc")
        s5 == Lookup(s4, d.email_groups, "tx_hash", "tx_hash", "same_tx_groups")
    IN  AddGroupField(s5)

\* the aggregation pipeline of process_purchase_data, run on the store d
sale_pipeline(d) ==
    LET s1 == Lookup(d.sales, d.metadata, "meta_hash", "meta_hash", "metadata")
        s2 == MatchNeEmpty(s1, "metadata")
        s3 == Lookup(s2, d.processed, "meta_hash", "meta_hash", "processed_doc")
        s4 == MatchEqEmpty(s3, "processed_doc")
        s5 == Lookup(s4, d.email_groups, "tx_hash", "tx_hash", "same_tx_groups")
    IN  AddGroupField(s5)

\* the aggregation pipeline of process_auto_renew_data, run on the store d
auto_renew_pipeline(d) ==
    LET s1 == Lookup(d.auto_renew_updates, d.metadata, "meta_hash", "meta_hash", "metadata")
        s2 == MatchNeEmpty(s1, "metadata")
        s3 == Lookup(s2, d.ar_processed, "tx_hash", "tx_hash", "processed_doc")
        s4 == MatchEqEmpty(s3, "processed_doc")
        s5 == Lookup(s4, d.email_groups, "tx_hash", "tx_hash", "same_tx_groups")
    IN  AddGroupField(s5)

\* bson::from_document::<SaleDoc>: Ok exactly when the fields of the struct
\* are there with their types (the price must be a double, expiry: i64 is
\* not an Option)
SaleDocDecodes(document) == document.price_type = "double" /\ document.has_expiry

\* bson::from_document::<ReenewalToggledDoc>: the allowance must be a string
RenewalDocDecodes(document) == document.allowance_type = "string"

\* EmailAddress::is_valid on the addresses of the model
is_valid(email) == email \in {"a@b.com", "c@d.org"}

RECURSIVE JoinAmp(_)
\* groups_params.join("&"), every parameter a pair of tokens
JoinAmp(params) ==
    IF params = <<>> THEN <<>>
    ELSE IF Len(params) = 1 THEN params[1]
    ELSE params[1] \o <<"&">> \o JoinAmp(Tail(params))

\* groups_params in reverse order
groups_params_reversed(same_tx_groups) ==
    [i \in 1..Len(same_tx_groups) |->
        <<"groups[]=", same_tx_groups[Len(same_tx_groups) + 1 - i]>>]

\* same_tx_groups.iter().map(|group| format!("groups[]={}", group))
groups_params(same_tx_groups) ==
    [i \in 1..Len(same_tx_groups) |-> <<"groups[]=", same_tx_groups[i]>>]

Pad2(n) == IF n < 10 THEN "0" \o ToString(n) ELSE ToString(n)

\* format_expiry without the range check of from_timestamp_opt
format_expiry_unchecked(secs) ==
    LET z    == secs.days + 719468
        era  == z \div 146097
        doe  == z - era * 146097
        yoe  == (doe - doe \div 1460 + doe \div 36524 - doe \div 146096) \div 365
        doy  == doe - (365 * yoe + yoe \div 4 - yoe \div 100)
        mp   == (5 * doy + 2) \div 153
        m    == IF mp < 10 THEN mp + 3 ELSE mp - 9
    IN  ToString(yoe + era * 400 + (IF m <= 2 THEN 1 ELSE 0)) \o "-" \o Pad2(m)
        \o "-" \o Pad2(doy - (153 * mp + 2) \div 5 + 1) \o " "
        \o Pad2(secs.sod \div 3600) \o ":" \o Pad2((secs.sod % 3600) \div 60)
        \o ":" \o Pad2(secs.sod % 60)

\* NaiveDateTime::from_timestamp_opt(secs, 0) formatted "%Y-%m-%d %H:%M:%S",
\* "none" when the timestamp is out of the range of NaiveDateTime
format_expiry(secs) ==
    LET days == secs.days
        sod  == secs.sod
        z    == days + 719468
        era  == z \div 146097
        doe  == z - era * 146097
        yoe  == (doe - doe \div 1460 + doe \div 36524 - doe \div 146096) \div 365
        doy  == doe - (365 * yoe + yoe \div 4 - yoe \div 100)
        mp   == (5 * doy + 2) \div 153
        d    == doy - (153 * mp + 2) \div 5 + 1
        m    == IF mp < 10 THEN mp + 3 ELSE mp - 9
        y    == yoe + era * 400 + (IF m <= 2 THEN 1 ELSE 0)
    IN  IF days < -96465658 \/ days > 95026601 THEN "none"
        ELSE ToString(y) \o "-" \o Pad2(m) \o "-" \o Pad2(d) \o " "
             \o Pad2(sod \div 3600) \o ":" \o Pad2((sod % 3600) \div 60)
             \o ":" \o Pad2(sod % 60)

\* the url process_sale formats, as the sequence of its pieces
sale_url(sale) ==
    << base_url, "?email=", sale.metadata[1].email,
       "&fields[name]=", sale.domain,
       "&fields[expiry]=", format_expiry(sale.expiry), "&" >>
    \o JoinAmp(groups_params(sale.same_tx_groups))

\* the url process_toggle_renewal formats, as the sequence of its pieces
toggle_renewal_url(sale) ==
    << base_url, "?email=", sale.metadata[1].email,
       "&fields[name]=", sale.domain,
       "&fields[renewer]=", sale.renewer, "&" >>
    \o JoinAmp(groups_params(sale.same_tx_groups))

\* format!("Bearer {}", &conf.email.api_key)
auth_header == "Bearer " \o api_key

\* ------------------------------------------------------------------ to_hex

\* the width of to_bytes_be()
FeltBytes == 32

\* a field element is held as the base-256 digits of its value, the least
\* significant first and the most significant not zero (zero is <<>>)
ByteSamples == {0, 1, 10, 15, 16, 171, 255}

\* FieldElement::from(n) for n < 2^31
from_u64(n) ==
    LET d == [i \in 1..4 |-> (n \div (256 ^ (i - 1))) % 256]
        top == IF n = 0 THEN 0 ELSE CHOOSE i \in 1..4 : d[i] # 0 /\ \A j \in (i + 1)..4 : d[j] = 0
    IN  SubSeq(d, 1, top)

\* FieldElement::from(u32::MAX as u64) and FieldElement::from(u64::MAX)
U32Max == [i \in 1..4 |-> 255]
U64Max == [i \in 1..8 |-> 255]

\* FieldElement::MAX = 2^251 + 17 * 2^192
FeltMax == [i \in 1..FeltBytes |-> IF i = 32 THEN 8 ELSE IF i = 25 THEN 17 ELSE 0]

\* the field elements of the model: every value of at most MaxBytes bytes
\* over the sample bytes, and the values of the tests of utils.rs
Felts ==
    { f \in UNION {[1..n -> ByteSamples] : n \in 0..MaxBytes} :
        f = <<>> \/ f[Len(f)] # 0 }
    \cup {from_u64(1234567890), U32Max, U64Max, FeltMax}

\* felt.to_bytes_be(): 32 bytes, the most significant first
to_bytes_be(felt) ==
    [i \in 1..FeltBytes |-> IF FeltBytes + 1 - i <= Len(felt) THEN felt[FeltBytes + 1 - i] ELSE 0]

\* iter().skip_while(|b| b == 0)
skip_while_zero(bytes) ==
    LET first == CHOOSE i \in 1..(Len(bytes) + 1) :
                    /\ \A j \in 1..(i - 1) : bytes[j] = 0
                    /\ i <= Len(bytes) => bytes[i] # 0
    IN  SubSeq(bytes, first, Len(bytes))

HexDigits == <<"0", "1", "2", "3", "4", "5", "6", "7", "8", "9", "a", "b", "c", "d", "e", "f">>

\* write!("{:x}", byte): no padding
format_x(byte) ==
    IF byte < 16 THEN <<HexDigits[byte + 1]>>
    ELSE <<HexDigits[(byte \div 16) + 1], HexDigits[(byte % 16) + 1]>>

\* write!("{:02x}", byte)
format_02x(byte) == <<HexDigits[(byte \div 16) + 1], HexDigits[(byte % 16) + 1]>>

RECURSIVE write_bytes(_, _)
\* the for loop of to_hex: every byte appended to result
write_bytes(result, bytes) ==
    IF bytes = <<>> THEN result
    ELSE write_bytes(result \o format_02x(Head(bytes)), Tail(bytes))

RECURSIVE write_bytes_unpadded(_, _)
\* the for loop of to_hex writing the bytes with {:x}
write_bytes_unpadded(result, bytes) ==
    IF bytes = <<>> THEN result
    ELSE write_bytes_unpadded(result \o format_x(Head(bytes)), Tail(bytes))

\* to_hex writing the bytes without padding
to_hex_unpadded(felt) ==
    LET bytes == to_bytes_be(felt) IN
    IF \A i \in DOMAIN bytes : bytes[i] = 0
    THEN <<"0", "x", "0">>
    ELSE write_bytes_unpadded(<<"0", "x">>, skip_while_zero(bytes))

\* to_hex(felt), the String as the sequence of its characters
to_hex(felt) ==
    LET bytes == to_bytes_be(felt) IN
    IF \A i \in DOMAIN bytes : bytes[i] = 0
    THEN <<"0", "x", "0">>
    ELSE write_bytes(<<"0", "x">>, skip_while_zero(bytes))

\* ------------------------------------------------------------------ state

VARIABLES
    db,         \* the collections of the database
    pc,         \* per worker: "idle", "loop" (inside while let), "panicked"
    kind,       \* per worker: the pass it runs, "sale" or "renewal"
    cursor,     \* per worker: the joined documents the cursor has yet to yield
    processed,  \* per worker: the local Vec of dedup keys of the pass
    resolved,   \* per worker: the _id of the events the aggregate resolved
    yielded,    \* per worker: the documents the cursor has yielded in the pass
    errs,       \* per worker: cursor errors reported in the pass
    pass,       \* per worker: the number of the pass it runs or ran last
    logger,     \* per worker: the messages logged in the pass
    posts,      \* the POST requests sent to the email service
    visits,     \* <<pass, kind, _id>> of every event pushed to a processed Vec
    passes,     \* passes started so far
    felt,       \* the argument of the call of to_hex
    hex         \* what the call of to_hex returned, <<>> before it

\* the state of the passes
pass_vars == <<db, pc, kind, cursor, processed, resolved, yielded, errs, pass,
               logger, posts, visits, passes>>

vars == <<pass_vars, felt, hex>>

\* what reqwest's send() can give: a 2xx response, another response, Err(e)
Outcomes == {"2xx", "non2xx", "transport_error"}

Ids(docs) == [i \in 1..Len(docs) |-> docs[i]._id]

\* the collections before the first pass: two sale events and two renewal
\* events, no marker yet
InitStore(m1, m2, pt, n1, t2, at) ==
    [ sales |->
        << SaleEvent(1, "T1", m1, "example", Secs(1700000000), pt),
           SaleEvent(2, "T2", m2, "other", Secs(0), "double") >>,
      auto_renew_updates |->
        << RenewalEvent(1, "T1", n1, "example", "0xabc", "0x10", at),
           RenewalEvent(2, t2, "M1", "other", "0xdef", "0x20", "string") >>,
      metadata |-> MetadataColl,
      email_groups |-> EmailGroupsColl,
      processed |-> <<>>,
      ar_processed |-> <<>> ]

\* the workers before the first pass
InitWorkers ==
    /\ pc = [p \in Workers |-> "idle"]
    /\ kind = [p \in Workers |-> "sale"]
    /\ cursor = [p \in Workers |-> <<>>]
    /\ processed = [p \in Workers |-> <<>>]
    /\ resolved = [p \in Workers |-> <<>>]
    /\ yielded = [p \in Workers |-> 0]
    /\ errs = [p \in Workers |-> 0]
    /\ pass = [p \in Workers |-> 0]
    /\ logger = [p \in Workers |-> <<>>]
    /\ posts = <<>>
    /\ visits = {}
    /\ passes = 0
    /\ felt = <<>>
    /\ hex = <<>>

\* the BSON type the allowance of renewal 1 is given along with price type pt
AllowanceTypeWith(pt) ==
    IF pt = "double" THEN "string" ELSE CHOOSE t \in AllowanceTypes : t # "string"

Init ==
    /\ \E m1 \in Metas, m2 \in {"M1", "M2"}, pt \in PriceTypes, t2 \in {"T1", "T3"} :
         db = InitStore(m1, m2, pt, m2, t2, AllowanceTypeWith(pt))
    /\ InitWorkers

\* expiry values of a sales document: instants NaiveDateTime can hold (the
\* epoch, the second before it, a leap day, 1700000000) and two it cannot
\* (8640000000000 and -8639999913601)
ExpirySamples ==
    { Secs(1700000000), Secs(0), Secs(0 - 1), Secs(951782400),
      Timestamp(100000000, 0), Timestamp(0 - 100000000, 86399) }

\* the stores of the expiry specification: sale 1 has any of the sample
\* expiries or no expiry field at all, and comes before a well-formed sale 2
\* of expiry 1700000000
InitExpiry ==
    /\ \E x \in ExpirySamples, present \in BOOLEAN :
         db = [InitStore("M1", "M1", "double", "M1", "T3", "string") EXCEPT
                 !.sales = << IF present THEN [@[1] EXCEPT !.expiry = x]
                              ELSE WithoutExpiry([@[1] EXCEPT !.expiry = x]),
                              [@[2] EXCEPT !.expiry = Secs(1700000000)] >>]
    /\ InitWorkers

\* the stores the two-worker specification starts from
InitConcurrent ==
    /\ \E m2 \in {"M1", "M2"}, pt \in PriceTypes :
         db = InitStore("M1", m2, pt, "M1", "T3", "string")
    /\ InitWorkers


\* ------------------------------------------------------- the start of a pass

\* the state of worker p once aggregate(pipeline) has returned Ok(cursor)
Begin(p, k, docs) ==
    /\ pc' = [pc EXCEPT ![p] = "loop"]
    /\ kind' = [kind EXCEPT ![p] = k]
    /\ cursor' = [cursor EXCEPT ![p] = docs]
    /\ resolved' = [resolved EXCEPT ![p] = Ids(docs)]
    /\ processed' = [processed EXCEPT ![p] = <<>>]
    /\ yielded' = [yielded EXCEPT ![p] = 0]
    /\ errs' = [errs EXCEPT ![p] = 0]
    /\ logger' = [logger EXCEPT ![p] = <<>>]
    /\ passes' = passes + 1
    /\ pass' = [pass EXCEPT ![p] = passes + 1]
    /\ UNCHANGED <<db, posts, visits, felt, hex>>

\* aggregate(pipeline) returned Err: unwrap() panics, nothing is logged
Panic(p, k) ==
    /\ pc' = [pc EXCEPT ![p] = "panicked"]
    /\ kind' = [kind EXCEPT ![p] = k]
    /\ cursor' = [cursor EXCEPT ![p] = <<>>]
    /\ resolved' = [resolved EXCEPT ![p] = <<>>]
    /\ processed' = [processed EXCEPT ![p] = <<>>]
    /\ yielded' = [yielded EXCEPT ![p] = 0]
    /\ errs' = [errs EXCEPT ![p] = 0]
    /\ logger' = [logger EXCEPT ![p] = <<>>]
    /\ passes' = passes + 1
    /\ pass' = [pass EXCEPT ![p] = passes + 1]
    /\ UNCHANGED <<db, posts, visits, felt, hex>>

\* purchase_aggregate behind a single-flight guard
purchase_aggregate_single_flight(p) ==
    /\ pc[p] = "idle"
    /\ \A q \in Workers : pc[q] # "loop"
    /\ passes < MaxPasses
    /\ Begin(p, "sale", sale_pipeline(db))

\* process_purchase_data up to the cursor: the aggregate succeeds
purchase_aggregate(p) ==
    /\ pc[p] = "idle"
    /\ passes < MaxPasses
    /\ Begin(p, "sale", sale_pipeline(db))

\* process_purchase_data: the aggregate fails
purchase_aggregate_err(p) ==
    /\ pc[p] = "idle"
    /\ passes < MaxPasses
    /\ Panic(p, "sale")

\* process_auto_renew_data up to the cursor: the aggregate succeeds
auto_renew_aggregate(p) ==
    /\ pc[p] = "idle"
    /\ passes < MaxPasses
    /\ Begin(p, "renewal", auto_renew_pipeline(db))

\* process_auto_renew_data: the aggregate fails
auto_renew_aggregate_err(p) ==
    /\ pc[p] = "idle"
    /\ passes < MaxPasses
    /\ Panic(p, "renewal")

\* ------------------------------------------------------------ one record

\* send_post sending the request a second time when the first attempt failed
send_post_with_retry(p, coll, id, url) ==
    \E outcome \in Outcomes, second \in Outcomes :
        LET attempt(o) == [worker |-> p, pass |-> pass[p], coll |-> coll, _id |-> id,
                           url |-> url, auth |-> auth_header, outcome |-> o]
        IN  /\ posts' = IF outcome = "2xx" THEN Append(posts, attempt(outcome))
                        ELSE posts \o <<attempt(outcome), attempt(second)>>
            /\ logger' = [logger EXCEPT ![p] =
                            IF outcome = "2xx" THEN @
                            ELSE IF outcome = "non2xx"
                                 THEN Append(@, <<"severe", "non-success status">>)
                                 ELSE Append(@, <<"severe", "failed to send POST">>)]

\* client.post(&url).header(AUTHORIZATION, auth_header).send().await and the
\* match on its result: a failure is logged, nothing else
send_post(p, coll, id, url) ==
    \E outcome \in Outcomes :
        /\ posts' = Append(posts, [worker |-> p, pass |-> pass[p], coll |-> coll,
                                   _id |-> id, url |-> url, auth |-> auth_header,
                                   outcome |-> outcome])
        /\ logger' = [logger EXCEPT ![p] =
                        IF outcome = "2xx" THEN @
                        ELSE IF outcome = "non2xx"
                             THEN Append(@, <<"severe", "non-success status">>)
                             ELSE Append(@, <<"severe", "failed to send POST">>)]

\* the early return of process_sale / process_toggle_renewal
reject_email(p) ==
    /\ logger' = [logger EXCEPT ![p] = Append(@, <<"local", "email is not valid">>)]
    /\ UNCHANGED posts

\* process_sale without the address check
process_sale_no_validation(p, sale, id) ==
    send_post(p, "sales", id, sale_url(sale))

\* process_sale(conf, logger, sale)
process_sale(p, sale, id) ==
    IF ~is_valid(sale.metadata[1].email)
    THEN reject_email(p)
    ELSE send_post(p, "sales", id, sale_url(sale))

\* process_toggle_renewal(conf, logger, sale)
process_toggle_renewal(p, sale, id) ==
    IF ~is_valid(sale.metadata[1].email)
    THEN reject_email(p)
    ELSE send_post(p, "auto_renew_updates", id, toggle_renewal_url(sale))

\* the Err(e) arm of from_document: logged, the record is skipped
parse_error(p) ==
    /\ logger' = [logger EXCEPT ![p] = Append(@, <<"severe", "Error parsing doc">>)]
    /\ UNCHANGED <<posts, processed, visits>>

\* purchase_next pushing the key only when the delivery succeeded
purchase_next_push_on_success(p) ==
    /\ pc[p] = "loop" /\ kind[p] = "sale" /\ cursor[p] # <<>>
    /\ LET document == Head(cursor[p])
           delivered == Len(posts') > Len(posts) /\ posts'[Len(posts')].outcome = "2xx"
       IN
         IF ~SaleDocDecodes(document)
         THEN parse_error(p)
         ELSE /\ process_sale(p, document, document._id)
              /\ processed' = [processed EXCEPT ![p] =
                                 IF delivered THEN Append(@, document.meta_hash) ELSE @]
              /\ visits' = IF delivered THEN visits \cup {<<pass[p], "sale", document._id>>}
                           ELSE visits
    /\ cursor' = [cursor EXCEPT ![p] = Tail(@)]
    /\ yielded' = [yielded EXCEPT ![p] = @ + 1]
    /\ UNCHANGED <<db, pc, kind, resolved, errs, pass, passes, felt, hex>>

\* purchase_next pushing the key of a document that failed to decode
purchase_next_marks_parse_errors(p) ==
    /\ pc[p] = "loop" /\ kind[p] = "sale" /\ cursor[p] # <<>>
    /\ LET document == Head(cursor[p]) IN
         IF ~SaleDocDecodes(document)
         THEN /\ logger' = [logger EXCEPT ![p] = Append(@, <<"severe", "Error parsing doc">>)]
              /\ processed' = [processed EXCEPT ![p] = Append(@, document.meta_hash)]
              /\ UNCHANGED <<posts, visits>>
         ELSE /\ process_sale(p, document, document._id)
              /\ processed' = [processed EXCEPT ![p] = Append(@, document.meta_hash)]
              /\ visits' = visits \cup {<<pass[p], "sale", document._id>>}
    /\ cursor' = [cursor EXCEPT ![p] = Tail(@)]
    /\ yielded' = [yielded EXCEPT ![p] = @ + 1]
    /\ UNCHANGED <<db, pc, kind, resolved, errs, pass, passes, felt, hex>>

\* purchase_next writing the marker of the document at once
purchase_next_insert_each(p) ==
    /\ pc[p] = "loop" /\ kind[p] = "sale" /\ cursor[p] # <<>>
    /\ LET document == Head(cursor[p]) IN
         IF ~SaleDocDecodes(document)
         THEN parse_error(p) /\ UNCHANGED db
         ELSE /\ process_sale(p, document, document._id)
              /\ processed' = [processed EXCEPT ![p] = Append(@, document.meta_hash)]
              /\ visits' = visits \cup {<<pass[p], "sale", document._id>>}
              /\ db' = [db EXCEPT !.processed = Append(@, [meta_hash |-> document.meta_hash])]
    /\ cursor' = [cursor EXCEPT ![p] = Tail(@)]
    /\ yielded' = [yielded EXCEPT ![p] = @ + 1]
    /\ UNCHANGED <<pc, kind, resolved, errs, pass, passes, felt, hex>>

\* purchase_next skipping a document whose key the pass has pushed already
purchase_next_once_per_key(p) ==
    /\ pc[p] = "loop" /\ kind[p] = "sale" /\ cursor[p] # <<>>
    /\ LET document == Head(cursor[p]) IN
         IF ~SaleDocDecodes(document)
         THEN parse_error(p)
         ELSE IF \E i \in DOMAIN processed[p] : processed[p][i] = document.meta_hash
         THEN UNCHANGED <<logger, posts, processed, visits>>
         ELSE /\ process_sale(p, document, document._id)
              /\ processed' = [processed EXCEPT ![p] = Append(@, document.meta_hash)]
              /\ visits' = visits \cup {<<pass[p], "sale", document._id>>}
    /\ cursor' = [cursor EXCEPT ![p] = Tail(@)]
    /\ yielded' = [yielded EXCEPT ![p] = @ + 1]
    /\ UNCHANGED <<db, pc, kind, resolved, errs, pass, passes, felt, hex>>

\* one turn of the while let of process_purchase_data on Ok(document)
purchase_next(p) ==
    /\ pc[p] = "loop" /\ kind[p] = "sale" /\ cursor[p] # <<>>
    /\ LET document == Head(cursor[p]) IN
         IF ~SaleDocDecodes(document)
         THEN parse_error(p)
         ELSE /\ process_sale(p, document, document._id)
              /\ processed' = [processed EXCEPT ![p] = Append(@, document.meta_hash)]
              /\ visits' = visits \cup {<<pass[p], "sale", document._id>>}
    /\ cursor' = [cursor EXCEPT ![p] = Tail(@)]
    /\ yielded' = [yielded EXCEPT ![p] = @ + 1]
    /\ UNCHANGED <<db, pc, kind, resolved, errs, pass, passes, felt, hex>>

\* one turn of the while let of process_auto_renew_data on Ok(document)
auto_renew_next(p) ==
    /\ pc[p] = "loop" /\ kind[p] = "renewal" /\ cursor[p] # <<>>
    /\ LET document == Head(cursor[p]) IN
         IF ~RenewalDocDecodes(document)
         THEN parse_error(p)
         ELSE /\ process_toggle_renewal(p, document, document._id)
              /\ processed' = [processed EXCEPT ![p] = Append(@, document.tx_hash)]
              /\ visits' = visits \cup {<<pass[p], "renewal", document._id>>}
    /\ cursor' = [cursor EXCEPT ![p] = Tail(@)]
    /\ yielded' = [yielded EXCEPT ![p] = @ + 1]
    /\ UNCHANGED <<db, pc, kind, resolved, errs, pass, passes, felt, hex>>

\* one turn of either while let on Err(e): the error is logged and the loop
\* goes on; the driver's cursor either is exhausted by the error or yields
\* the next batch after all
cursor_error(p) ==
    /\ pc[p] = "loop" /\ cursor[p] # <<>>
    /\ errs[p] < MaxCursorErrs
    /\ errs' = [errs EXCEPT ![p] = @ + 1]
    /\ logger' = [logger EXCEPT ![p] = Append(@, <<"severe", "Error while processing">>)]
    /\ \E exhausted \in BOOLEAN :
         cursor' = [cursor EXCEPT ![p] = IF exhausted THEN <<>> ELSE @]
    /\ UNCHANGED <<db, pc, kind, processed, resolved, yielded, pass, posts, visits, passes,
                   felt, hex>>

\* -------------------------------------------------------- the end of a pass

\* sale_markers without the first key
sale_markers_skip_first(keys) == [i \in 1..(Len(keys) - 1) |-> [meta_hash |-> keys[i + 1]]]

\* sale_markers with a single marker for a key pushed more than once
sale_markers_distinct(keys) ==
    LET first == SelectSeq([i \in 1..Len(keys) |-> i],
                           LAMBDA i : \A j \in 1..(i - 1) : keys[j] # keys[i])
    IN  [n \in 1..Len(first) |-> [meta_hash |-> keys[first[n]]]]

\* the marker documents insert_many is given
sale_markers(keys) == [i \in 1..Len(keys) |-> [meta_hash |-> keys[i]]]

auto_renew_markers(keys) == [i \in 1..Len(keys) |-> [tx_hash |-> keys[i]]]

\* insert_many followed, when it fails, by a second insert_many of the same
\* documents that succeeds
insert_many_retried(p, coll, docs) ==
    \E ok \in BOOLEAN, n \in 0..Len(docs) :
        /\ ok => n = Len(docs)
        /\ db' = [db EXCEPT ![coll] =
                    IF ok THEN @ \o docs ELSE @ \o SubSeq(docs, 1, n) \o docs]
        /\ logger' = [logger EXCEPT ![p] =
                        IF ok THEN @
                        ELSE Append(@, <<"severe", "Error inserting into 'processed' collection">>)]

\* insert_many(docs) on collection coll of the store: Ok inserts every
\* document; Err leaves the documents the ordered insert wrote before the
\* failure (all of them when only the acknowledgement was lost)
insert_many(p, coll, docs) ==
    \E ok \in BOOLEAN, n \in 0..Len(docs) :
        /\ ok => n = Len(docs)
        /\ db' = [db EXCEPT ![coll] = @ \o SubSeq(docs, 1, n)]
        /\ logger' = [logger EXCEPT ![p] =
                        IF ok THEN @
                        ELSE Append(@, <<"severe", "Error inserting into 'processed' collection">>)]

\* the cursor of process_purchase_data is exhausted: return when nothing was
\* visited, blacklist the visited keys otherwise
purchase_finish(p) ==
    /\ pc[p] = "loop" /\ kind[p] = "sale" /\ cursor[p] = <<>>
    /\ IF processed[p] = <<>>
       THEN UNCHANGED <<db, logger>>
       ELSE insert_many(p, "processed", sale_markers(processed[p]))
    /\ pc' = [pc EXCEPT ![p] = "idle"]
    /\ UNCHANGED <<kind, cursor, processed, resolved, yielded, errs, pass, posts, visits, passes,
                   felt, hex>>

\* auto_renew_finish writing its markers into 'processed'
auto_renew_finish_in_processed(p) ==
    /\ pc[p] = "loop" /\ kind[p] = "renewal" /\ cursor[p] = <<>>
    /\ IF processed[p] = <<>>
       THEN UNCHANGED <<db, logger>>
       ELSE insert_many(p, "processed", sale_markers(processed[p]))
    /\ pc' = [pc EXCEPT ![p] = "idle"]
    /\ UNCHANGED <<kind, cursor, processed, resolved, yielded, errs, pass, posts, visits, passes,
                   felt, hex>>

\* the cursor of process_auto_renew_data is exhausted
auto_renew_finish(p) ==
    /\ pc[p] = "loop" /\ kind[p] = "renewal" /\ cursor[p] = <<>>
    /\ IF processed[p] = <<>>
       THEN UNCHANGED <<db, logger>>
       ELSE insert_many(p, "ar_processed", auto_renew_markers(processed[p]))
    /\ pc' = [pc EXCEPT ![p] = "idle"]
    /\ UNCHANGED <<kind, cursor, processed, resolved, yielded, errs, pass, posts, visits, passes,
                   felt, hex>>

\* ---------------------------------------------------------- specifications

\* what worker p can do
Step(p) ==
    \/ purchase_aggregate(p)
    \/ purchase_aggregate_err(p)
    \/ auto_renew_aggregate(p)
    \/ auto_renew_aggregate_err(p)
    \/ purchase_next(p)
    \/ auto_renew_next(p)
    \/ cursor_error(p)
    \/ purchase_finish(p)
    \/ auto_renew_finish(p)

\* one worker: the passes run one after another
Next == Step("w1")

Spec == Init /\ [][Next]_vars

\* one worker, over the stores with the sample expiries
SpecExpiry == InitExpiry /\ [][Next]_vars

\* to_hex is about to be called on any of the field elements
InitToHex ==
    /\ db = InitStore("M1", "M1", "double", "M1", "T3", "string")
    /\ pc = [p \in Workers |-> "idle"]
    /\ kind = [p \in Workers |-> "sale"]
    /\ cursor = [p \in Workers |-> <<>>]
    /\ processed = [p \in Workers |-> <<>>]
    /\ resolved = [p \in Workers |-> <<>>]
    /\ yielded = [p \in Workers |-> 0]
    /\ errs = [p \in Workers |-> 0]
    /\ pass = [p \in Workers |-> 0]
    /\ logger = [p \in Workers |-> <<>>]
    /\ posts = <<>>
    /\ visits = {}
    /\ passes = 0
    /\ felt \in Felts
    /\ hex = <<>>

\* the call of to_hex returns
call_to_hex ==
    /\ hex = <<>>
    /\ hex' = to_hex(felt)
    /\ UNCHANGED <<pass_vars, felt>>

NextToHex == call_to_hex

SpecToHex == InitToHex /\ [][NextToHex]_vars

\* the stores of the specification with arrivals
InitArrivals ==
    /\ \E m2 \in {"M1", "M2"}, pt \in PriceTypes :
         db = InitStore(m2, m2, pt, "M1", "T1", "string")
    /\ InitWorkers

\* the events the upstream writer has added
Arrived ==
    Len(db.sales) + Len(db.auto_renew_updates)
        - Len(InitStore("M1", "M1", "double", "M1", "T1", "string").sales)
        - Len(InitStore("M1", "M1", "double", "M1", "T1", "string").auto_renew_updates)

\* the upstream writer adds a sale to 'sales'
upstream_sale ==
    /\ Arrived < MaxArrivals
    /\ \E mh \in {"M1", "M2"} :
         db' = [db EXCEPT !.sales =
                  Append(@, SaleEvent(Len(@) + 1, "T3", mh, "late", Secs(0), "double"))]
    /\ UNCHANGED <<pc, kind, cursor, processed, resolved, yielded, errs, pass, logger,
                   posts, visits, passes, felt, hex>>

\* the upstream writer adds a renewal to 'auto_renew_updates'
upstream_renewal ==
    /\ Arrived < MaxArrivals
    /\ \E tx \in {"T1", "T2"} :
         db' = [db EXCEPT !.auto_renew_updates =
                  Append(@, RenewalEvent(Len(@) + 1, tx, "M1", "late", "0xabc", "0x30", "string"))]
    /\ UNCHANGED <<pc, kind, cursor, processed, resolved, yielded, errs, pass, logger,
                   posts, visits, passes, felt, hex>>

\* one worker, and events arriving between and during its passes
NextArrivals ==
    \/ Step("w1")
    \/ upstream_sale
    \/ upstream_renewal

SpecArrivals == InitArrivals /\ [][NextArrivals]_vars

\* two workers: passes can overlap
NextConcurrent == \E p \in Workers : Step(p)

SpecConcurrent == InitConcurrent /\ [][NextConcurrent]_vars

\* ------------------------------------------------- vocabulary of the claims

Kinds == {"sale", "renewal"}

Range(f) == {f[i] : i \in DOMAIN f}

\* the source collection, marker collection and dedup key field of a kind
SourceColl(k) == IF k = "sale" THEN "sales" ELSE "auto_renew_updates"
MarkerColl(k) == IF k = "sale" THEN "processed" ELSE "ar_processed"
KeyField(k) == IF k = "sale" THEN "meta_hash" ELSE "tx_hash"

Events(k) == Range(db[SourceColl(k)])
EventIds(k) == {e._id : e \in Events(k)}
Event(k, id) == CHOOSE e \in Events(k) : e._id = id
DedupKey(k, id) == Event(k, id)[KeyField(k)]
Decodes(k, e) == IF k = "sale" THEN e.price_type = "double" /\ e.has_expiry
                 ELSE e.allowance_type = "string"

\* the metadata records of an event, in collection order
MetadataOf(e) == SelectSeq(db.metadata, LAMBDA m : m.meta_hash = e.meta_hash)

\* markers in the store for the dedup key of event id of kind k
MarkersFor(k, id) ==
    {i \in DOMAIN db[MarkerColl(k)] :
        db[MarkerColl(k)][i][KeyField(k)] = DedupKey(k, id)}
Marked(k, id) == MarkersFor(k, id) # {}

\* the POSTs sent for event id of kind k
PostsFor(k, id) ==
    {i \in DOMAIN posts : posts[i].coll = SourceColl(k) /\ posts[i]._id = id}

\* the events pass n visited
VisitedIn(n, k) == {id \in EventIds(k) : <<n, k, id>> \in visits}

\* worker p has returned from a pass
Returned(p) == pc[p] = "idle" /\ pass[p] > 0

\* the insert_many of the pass worker p ran last reported an error
InsertFailed(p) ==
    \E i \in DOMAIN logger[p] :
        logger[p][i] = <<"severe", "Error inserting into 'processed' collection">>

\* ----------------------------------------------------------------- C1

\* C1 as stated: over passes run one after another every event gets at most
\* one POST in total, whatever happened to the deliveries.
C1_AtMostOneAttemptEver ==
    \A k \in Kinds : \A id \in EventIds(k) : Cardinality(PostsFor(k, id)) <= 1

\* no pass sends two POSTs for one event
OnePostPerPass ==
    \A i, j \in DOMAIN posts :
        (posts[i].coll = posts[j].coll /\ posts[i]._id = posts[j]._id
            /\ posts[i].pass = posts[j].pass) => i = j

\* a step sends no POST for an event whose dedup key has a marker
NoPostOnceMarked ==
    \A k \in Kinds : \A id \in EventIds(k) :
        Marked(k, id) => PostsFor(k, id)' = PostsFor(k, id)

\* a step that starts a pass resolves no event whose dedup key has a marker
NotSelectedOnceMarked ==
    \A k \in Kinds : \A id \in EventIds(k) :
        (Marked(k, id) /\ pc["w1"] = "idle" /\ pc'["w1"] = "loop" /\ kind'["w1"] = k)
            => id \notin Range(resolved'["w1"])

\* C1, amended: with passes run one after another an event gets at most one
\* POST per pass, and from the moment a marker for its dedup key is in the
\* store it is selected by no pass and gets no POST, whatever the outcome of
\* the deliveries (a visited event whose marker the insert_many did not
\* persist stays eligible).
C1_AtMostOneAttemptOnceMarked ==
    /\ []OnePostPerPass
    /\ [][NoPostOnceMarked /\ NotSelectedOnceMarked]_vars

\* an event was visited and POSTed in pass 1, its marker was written, and a
\* second pass of the same kind has run to its end without a second POST
C1_Witness ==
    \E k \in Kinds : \E id \in EventIds(k) :
        /\ Returned("w1") /\ pass["w1"] = 2 /\ kind["w1"] = k
        /\ <<1, k, id>> \in visits
        /\ Marked(k, id)
        /\ \E i \in PostsFor(k, id) : posts[i].pass = 1 /\ posts[i].outcome # "2xx"
        /\ Cardinality(PostsFor(k, id)) = 1

\* ----------------------------------------------------------------- C2

\* the events of kind k that have a metadata record and no marker
Eligible(k) ==
    {e._id : e \in {x \in Events(k) :
        /\ \E i \in DOMAIN db.metadata : db.metadata[i].meta_hash = x.meta_hash
        /\ ~Marked(k, x._id)}}

\* C2: the events a pass resolves are exactly the events of its kind that
\* have at least one metadata record with their meta_hash and, when the
\* aggregate runs, no marker for their dedup key; each is resolved once.
C2_ResolvedIffEligible ==
    pc["w1"] = "loop" =>
        /\ Range(resolved["w1"]) = Eligible(kind["w1"])
        /\ Len(resolved["w1"]) = Cardinality(Eligible(kind["w1"]))

\* a second pass has resolved one event and left out another that has
\* metadata and a marker
C2_Witness ==
    /\ pc["w1"] = "loop" /\ pass["w1"] = 2
    /\ resolved["w1"] # <<>>
    /\ \E id \in EventIds(kind["w1"]) :
         /\ MetadataOf(Event(kind["w1"], id)) # <<>>
         /\ Marked(kind["w1"], id)
         /\ id \notin Range(resolved["w1"])

\* ----------------------------------------------------------------- C3

\* the events of kind k a pass run now would visit
WouldVisit(k) == {id \in Eligible(k) : Decodes(k, Event(k, id))}

\* the events pass n visited that carry the dedup key of event id
VisitedWithKeyOf(n, k, id) ==
    {j \in VisitedIn(n, k) : DedupKey(k, j) = DedupKey(k, id)}

\* C3 as stated: after a pass every event it visited has exactly one marker
\* for its dedup key, and the same pass run again at once visits no event
\* (and so sends no POST).
C3_ExactlyOneMarkerAndConverged ==
    Returned("w1") =>
        /\ \A id \in VisitedIn(pass["w1"], kind["w1"]) :
              Cardinality(MarkersFor(kind["w1"], id)) = 1
        /\ WouldVisit(kind["w1"]) = {}

\* C3, amended: after a pass whose insert_many succeeded, every event it
\* visited has a marker for its dedup key, one for each event of that key the
\* pass visited, and the same pass run again at once visits none of them (and
\* sends no POST for them).
C3_MarkedAndNotRevisited ==
    (Returned("w1") /\ ~InsertFailed("w1")) =>
        \A id \in VisitedIn(pass["w1"], kind["w1"]) :
            /\ Cardinality(MarkersFor(kind["w1"], id))
                 = Cardinality(VisitedWithKeyOf(pass["w1"], kind["w1"], id))
            /\ Marked(kind["w1"], id)
            /\ id \notin WouldVisit(kind["w1"])

\* a pass has returned after a successful insert_many and one of the events
\* it visited has two markers for its dedup key
C3_Witness ==
    /\ Returned("w1") /\ ~InsertFailed("w1")
    /\ \E id \in VisitedIn(pass["w1"], kind["w1"]) :
         Cardinality(MarkersFor(kind["w1"], id)) = 2

\* ----------------------------------------------------------------- C4

\* the POSTs of the pass worker p runs or ran last
PostsOfPass(p) == {i \in DOMAIN posts : posts[i].pass = pass[p]}

\* C4 as stated: after a pass, an event whose delivery failed is in the
\* marker set, like one whose delivery succeeded.
C4_FailedDeliveryMarked ==
    Returned("w1") =>
        \A i \in PostsOfPass("w1") : Marked(kind["w1"], posts[i]._id)

\* C4, amended: the dedup key of an event is pushed whatever the outcome of
\* its delivery, and after a pass whose insert_many succeeded an event whose
\* delivery failed is in the marker set, like one whose delivery succeeded.
C4_MarkingIgnoresDelivery ==
    /\ \A i \in PostsOfPass("w1") :
          <<pass["w1"], kind["w1"], posts[i]._id>> \in visits
    /\ (Returned("w1") /\ ~InsertFailed("w1")) =>
          \A i \in PostsOfPass("w1") : Marked(kind["w1"], posts[i]._id)

\* a pass has returned after a successful insert_many, and an event whose
\* POST got a non-2xx response and one whose POST was not sent are marked
C4_Witness ==
    /\ Returned("w1") /\ ~InsertFailed("w1")
    /\ \E i, j \in PostsOfPass("w1") :
         /\ posts[i].outcome = "non2xx" /\ Marked(kind["w1"], posts[i]._id)
         /\ posts[j].outcome = "transport_error" /\ Marked(kind["w1"], posts[j]._id)

\* ----------------------------------------------------------------- C5

\* the events the cursor of worker p has yielded whose document decodes and
\* whose first metadata record has an invalid address
YieldedWithInvalidEmail(p) ==
    {resolved[p][i] : i \in {j \in 1..yielded[p] :
        LET e == Event(kind[p], resolved[p][j]) IN
            Decodes(kind[p], e) /\ ~is_valid(MetadataOf(e)[1].email)}}

\* C5 as stated: an event whose first metadata address is invalid causes no
\* POST in the pass, its key is pushed, and it is marked at the end of the pass.
C5_InvalidEmailNoPostButMarked ==
    \A id \in YieldedWithInvalidEmail("w1") :
        /\ \A i \in PostsOfPass("w1") : posts[i]._id # id
        /\ <<pass["w1"], kind["w1"], id>> \in visits
        /\ Returned("w1") => Marked(kind["w1"], id)

\* C5, amended: an event whose first metadata address is invalid causes no
\* POST in the pass, its key is pushed, and it is marked at the end of the
\* pass when the insert_many of the pass succeeds.
C5_InvalidEmailNoPostButPushed ==
    \A id \in YieldedWithInvalidEmail("w1") :
        /\ \A i \in PostsOfPass("w1") : posts[i]._id # id
        /\ <<pass["w1"], kind["w1"], id>> \in visits
        /\ (Returned("w1") /\ ~InsertFailed("w1")) => Marked(kind["w1"], id)

\* a pass has returned after a successful insert_many; an event whose first
\* address is invalid (and whose second is valid) got no POST and is marked
C5_Witness ==
    /\ Returned("w1") /\ ~InsertFailed("w1")
    /\ \E id \in YieldedWithInvalidEmail("w1") :
         /\ Len(MetadataOf(Event(kind["w1"], id))) = 2
         /\ PostsFor(kind["w1"], id) = {}
         /\ Marked(kind["w1"], id)

\* ----------------------------------------------------------------- C6

\* positions of the documents the cursor of worker p yielded that failed to decode
YieldedUndecodable(p) ==
    {j \in 1..yielded[p] : ~Decodes(kind[p], Event(kind[p], resolved[p][j]))}

\* the pass of worker p logged as many parse errors as documents failed to decode
ParseErrorsLogged(p) ==
    Cardinality({i \in DOMAIN logger[p] : logger[p][i] = <<"severe", "Error parsing doc">>})
        = Cardinality(YieldedUndecodable(p))

\* every document the cursor of worker p yielded that decodes was visited
DecodableVisited(p) ==
    \A j \in 1..yielded[p] :
        Decodes(kind[p], Event(kind[p], resolved[p][j]))
            => <<pass[p], kind[p], resolved[p][j]>> \in visits

\* C6 as stated: a document that fails to decode is logged and skipped, gets
\* no POST, is not marked, and is resolved again by the next pass; the other
\* records of the pass are processed as usual.
C6_UndecodableRetried ==
    /\ ParseErrorsLogged("w1")
    /\ DecodableVisited("w1")
    /\ \A j \in YieldedUndecodable("w1") :
          LET id == resolved["w1"][j] IN
            /\ PostsFor(kind["w1"], id) = {}
            /\ <<pass["w1"], kind["w1"], id>> \notin visits
            /\ Returned("w1") =>
                  ~Marked(kind["w1"], id) /\ id \in Eligible(kind["w1"])

\* C6, amended: a document that fails to decode is logged and skipped, gets
\* no POST and its key is not pushed; it is resolved again by the next pass
\* unless the pass visited another event with the same dedup key, whose
\* marker then covers it; the other records of the pass are processed as usual.
C6_UndecodableRetriedUnlessKeyShared ==
    /\ ParseErrorsLogged("w1")
    /\ DecodableVisited("w1")
    /\ \A j \in YieldedUndecodable("w1") :
          LET id == resolved["w1"][j] IN
            /\ PostsFor(kind["w1"], id) = {}
            /\ <<pass["w1"], kind["w1"], id>> \notin visits
            /\ (Returned("w1") /\ VisitedWithKeyOf(pass["w1"], kind["w1"], id) = {})
                  => ~Marked(kind["w1"], id) /\ id \in Eligible(kind["w1"])

\* a pass has returned; its first document failed to decode, got no POST and
\* is eligible again, and the document after it was delivered and marked
C6_Witness ==
    /\ Returned("w1")
    /\ 1 \in YieldedUndecodable("w1")
    /\ resolved["w1"][1] \in Eligible(kind["w1"])
    /\ yielded["w1"] = 2
    /\ PostsFor(kind["w1"], resolved["w1"][2]) # {}
    /\ Marked(kind["w1"], resolved["w1"][2])

\* ----------------------------------------------------------------- C7

\* C7: no failure is fatal: whatever fails, the store's eligibility query
\* included, the pass logs it and returns, so that a later pass can run.
C7_NoFailureIsFatal ==
    \A p \in Workers : pc[p] # "panicked"

\* ----------------------------------------------------------------- C8

\* C8: there is no mutual exclusion across passes: an idle worker can start
\* a pass of either kind whatever the other workers are doing, also while
\* another pass of that kind is between its aggregate and its insert_many.
C8_NoMutualExclusion ==
    \A p \in Workers :
        (pc[p] = "idle" /\ passes < MaxPasses) =>
            /\ ENABLED purchase_aggregate(p)
            /\ ENABLED auto_renew_aggregate(p)

\* two overlapping passes both resolved sale 1 before either wrote a marker:
\* both have returned, the event got one POST from each and its dedup key,
\* which no other event carries, has two markers
C8_Witness ==
    /\ Returned("w1") /\ Returned("w2")
    /\ kind["w1"] = "sale" /\ kind["w2"] = "sale"
    /\ 1 \in Range(resolved["w1"]) /\ 1 \in Range(resolved["w2"])
    /\ DedupKey("sale", 2) # DedupKey("sale", 1)
    /\ \E i, j \in PostsFor("sale", 1) :
         posts[i].worker = "w1" /\ posts[j].worker = "w2"
    /\ Cardinality(PostsFor("sale", 1)) = 2
    /\ Cardinality(MarkersFor("sale", 1)) = 2

\* ----------------------------------------------------------------- C9

\* the url has the piece name followed by the piece value
HasParam(url, name, value) ==
    \E i \in 1..(Len(url) - 1) : url[i] = name /\ url[i + 1] = value

\* the values of the groups[] parameters of the url, in order
GroupValues(url) ==
    LET at == SelectSeq([i \in 1..Len(url) |-> i],
                        LAMBDA i : i < Len(url) /\ url[i] = "groups[]=")
    IN  [n \in 1..Len(at) |-> url[at[n] + 1]]

\* C9: the request for a renewal event carries the email, the domain as
\* fields[name], the renewer and the allowance as named fields, then the
\* groups[] parameters; the request for a sale carries fields[expiry] instead.
C9_RenewalCarriesRenewerAndAllowance ==
    \A i \in DOMAIN posts :
        LET url == posts[i].url IN
        IF posts[i].coll = "auto_renew_updates"
        THEN LET e == Event("renewal", posts[i]._id) IN
             /\ HasParam(url, "?email=", MetadataOf(e)[1].email)
             /\ HasParam(url, "&fields[name]=", e.domain)
             /\ HasParam(url, "&fields[renewer]=", e.renewer)
             /\ HasParam(url, "&fields[allowance]=", e.allowance)
        ELSE LET e == Event("sale", posts[i]._id) IN
             /\ HasParam(url, "?email=", MetadataOf(e)[1].email)
             /\ HasParam(url, "&fields[name]=", e.domain)
             /\ \E v \in Range(url) : HasParam(url, "&fields[expiry]=", v)

\* ----------------------------------------------------------------- C10

\* the groups of the email_groups documents of transaction tx, in collection order
GroupsOfTx(tx) ==
    LET assoc == SelectSeq(db.email_groups, LAMBDA g : g.tx_hash = tx)
    IN  [n \in 1..Len(assoc) |-> assoc[n].group]

\* C10: the request of an event has one groups[] parameter for each group
\* association of its transaction, in the order of the associations: none
\* for no association, two for two.
C10_OneGroupParamPerAssociation ==
    \A i \in DOMAIN posts :
        LET k == IF posts[i].coll = "sales" THEN "sale" ELSE "renewal" IN
        GroupValues(posts[i].url) = GroupsOfTx(Event(k, posts[i]._id).tx_hash)

\* a request with two groups[] parameters and one with none were sent
C10_Witness ==
    \E i, j \in DOMAIN posts :
        /\ GroupValues(posts[i].url) = <<"vip", "og">>
        /\ GroupsOfTx(Event("sale", posts[j]._id).tx_hash) = <<>>
        /\ posts[j].coll = "sales"
        /\ GroupValues(posts[j].url) = <<>>

\* ----------------------------------------------------------------- C11

\* the events the cursor of worker p has yielded whose first metadata record
\* has a valid address and whose price is a double
YieldedDeliverable(p) ==
    {resolved[p][i] : i \in {j \in 1..yielded[p] :
        LET e == Event(kind[p], resolved[p][j]) IN
            /\ kind[p] = "sale"
            /\ e.price_type = "double"
            /\ is_valid(MetadataOf(e)[1].email)}}

\* the text of fields[expiry] for the sample expiries: UTC, YYYY-MM-DD HH:MM:SS
ExpiryText(x) ==
    CASE x = Secs(1700000000) -> "2023-11-14 22:13:20"
      [] x = Secs(0) -> "1970-01-01 00:00:00"
      [] x = Secs(0 - 1) -> "1969-12-31 23:59:59"
      [] x = Secs(951782400) -> "2000-02-29 00:00:00"
      [] OTHER -> "none"

\* the POSTs the pass of worker p sent for sale id
PassPostsFor(p, id) == {i \in PostsOfPass(p) : posts[i].coll = "sales" /\ posts[i]._id = id}

\* C11 as stated: the fields[expiry] of the request of a sale is its expiry
\* in UTC as YYYY-MM-DD HH:MM:SS when the timestamp is valid and the literal
\* none when it is absent or invalid, and the request is sent in both cases.
C11_AbsentOrInvalidExpirySentAsNone ==
    \A id \in YieldedDeliverable("w1") :
        LET e == Event("sale", id) IN
        /\ PassPostsFor("w1", id) # {}
        /\ \A i \in PassPostsFor("w1", id) :
              HasParam(posts[i].url, "&fields[expiry]=",
                       IF e.has_expiry THEN ExpiryText(e.expiry) ELSE "none")

\* C11, amended: the fields[expiry] of the request of a sale is its expiry
\* in UTC as YYYY-MM-DD HH:MM:SS when the timestamp is one NaiveDateTime can
\* hold and the literal none when it is not, and the request is sent in both
\* cases; a sales document without an expiry field fails to decode and no
\* request is sent for it.
C11_ExpiryRenderedOrNone ==
    \A id \in YieldedDeliverable("w1") :
        LET e == Event("sale", id) IN
        IF e.has_expiry
        THEN /\ PassPostsFor("w1", id) # {}
             /\ \A i \in PassPostsFor("w1", id) :
                   HasParam(posts[i].url, "&fields[expiry]=", ExpiryText(e.expiry))
        ELSE PassPostsFor("w1", id) = {}

\* requests went out with fields[expiry] 2023-11-14 22:13:20 for expiry
\* 1700000000 and with none for an expiry out of range
C11_Witness ==
    \E i, j \in DOMAIN posts :
        /\ posts[i].coll = "sales" /\ posts[j].coll = "sales"
        /\ Event("sale", posts[i]._id).expiry = Secs(1700000000)
        /\ HasParam(posts[i].url, "&fields[expiry]=", "2023-11-14 22:13:20")
        /\ Event("sale", posts[j]._id).expiry = Timestamp(100000000, 0)
        /\ HasParam(posts[j].url, "&fields[expiry]=", "none")

\* ----------------------------------------------------------------- C12

\* one marker of kind k for every entry of the visited list keys, in its order
MarkersOfList(k, keys) ==
    [i \in 1..Len(keys) |->
        IF k = "sale" THEN [meta_hash |-> keys[i]] ELSE [tx_hash |-> keys[i]]]

\* the step is the return of worker p from its pass
Returns(p) == pc[p] = "loop" /\ pc'[p] = "idle"

\* a step that changes the store is the last step of the pass, and what it
\* appends to the marker collection is one marker per entry of the visited
\* list: all of them unless the insert reports an error, a prefix if it does
SingleBulkInsert(p) ==
    db' # db =>
        LET coll == MarkerColl(kind[p])
            docs == MarkersOfList(kind[p], processed[p])
        IN  /\ Returns(p)
            /\ \E n \in 0..Len(docs) : db'[coll] = db[coll] \o SubSeq(docs, 1, n)
            /\ ~InsertFailed(p)' => db'[coll] = db[coll] \o docs

\* a pass that returns with an empty visited list writes and logs nothing
NoWriteWhenEmpty(p) ==
    (Returns(p) /\ processed[p] = <<>>) => db' = db /\ logger' = logger

\* C12: the pass writes to the store once, in its last step, a bulk insert
\* of one marker per entry of its visited list in the marker collection of
\* its kind, and with an empty visited list it writes nothing at all.
C12_SingleBulkInsertOrNone ==
    [][SingleBulkInsert("w1") /\ NoWriteWhenEmpty("w1")]_vars

\* a first pass has written the two markers of its two visited sales in one
\* insert, and a second pass has returned with an empty visited list and
\* left them as they were
C12_Witness ==
    /\ Returned("w1") /\ pass["w1"] = 2 /\ kind["w1"] = "sale"
    /\ processed["w1"] = <<>>
    /\ VisitedIn(1, "sale") = {1, 2}
    /\ Len(db.processed) = 2
    /\ db.ar_processed = <<>>

\* ----------------------------------------------------------------- C13

InsertError == <<"severe", "Error inserting into 'processed' collection">>

\* the insert errors the pass of worker p has logged
InsertErrors(p) == {i \in DOMAIN logger[p] : logger[p][i] = InsertError}

\* the step in which the insert_many of worker p fails: the error is logged
\* once, the worker returns, no request is sent, no document leaves the
\* store, and the marker collection holds what it held plus the markers the
\* store persisted before the failure, each once
FailedInsertOnlyLogged(p) ==
    (InsertFailed(p)' /\ ~InsertFailed(p)) =>
        LET coll == MarkerColl(kind[p])
            docs == MarkersOfList(kind[p], processed[p])
        IN  /\ logger'[p] = Append(logger[p], InsertError)
            /\ pc'[p] = "idle"
            /\ posts' = posts
            /\ \E n \in 0..Len(docs) : db'[coll] = db[coll] \o SubSeq(docs, 1, n)
            /\ \A c \in DOMAIN db : c # coll => db'[c] = db[c]

\* after the failure the pass does nothing more: the next step of the
\* worker, if any, starts another pass
NothingAfterFailedInsert(p) ==
    InsertFailed(p) => (pass'[p] = pass[p] + 1 /\ db' = db /\ posts' = posts)

\* C13: a failing end-of-pass insert_many is only logged: the pass returns
\* normally without a second insert, without undoing or repeating a
\* delivery, and the store keeps whatever markers it persisted.
C13_InsertFailureOnlyLogged ==
    /\ [](Cardinality(InsertErrors("w1")) <= 1)
    /\ [][FailedInsertOnlyLogged("w1") /\ NothingAfterFailedInsert("w1")]_vars

\* a pass has returned after its insert_many failed: both its sales were
\* POSTed once, and the store kept the first of the two markers only
C13_Witness ==
    /\ Returned("w1") /\ InsertFailed("w1") /\ kind["w1"] = "sale" /\ pass["w1"] = 1
    /\ Len(processed["w1"]) = 2
    /\ Cardinality(PostsOfPass("w1")) = 2
    /\ db.processed = <<[meta_hash |-> processed["w1"][1]]>>

\* ----------------------------------------------------------------- C14

\* the value of a hexadecimal digit
HexValue(c) == CHOOSE v \in 0..15 : HexDigits[v + 1] = c

\* the bytes of the value of a field element from its first non-zero byte
\* on, the most significant first
SignificantBytes(f) == [i \in 1..Len(f) |-> f[Len(f) + 1 - i]]

\* text is "0x" followed by two lowercase hexadecimal digits for each byte
TwoDigitsPerByte(text, bytes) ==
    /\ Len(text) = 2 + 2 * Len(bytes)
    /\ text[1] = "0" /\ text[2] = "x"
    /\ \A i \in 1..Len(bytes) :
          /\ text[2 * i + 1] \in Range(HexDigits)
          /\ text[2 * i + 2] \in Range(HexDigits)
          /\ 16 * HexValue(text[2 * i + 1]) + HexValue(text[2 * i + 2]) = bytes[i]

\* C14: to_hex gives "0x0" for zero and otherwise "0x" followed by the
\* lowercase hexadecimal of the big-endian bytes without the leading zero
\* bytes, two digits for every remaining byte: 0xff for 255, 0x0a for 10,
\* 0x499602d2 for 1234567890, 0xffffffff for u32::MAX, 0xffffffffffffffff
\* for u64::MAX, and 66 characters for the maximal field element.
C14_ToHexTwoDigitsPerByte ==
    hex # <<>> =>
        /\ felt = <<>> => hex = <<"0", "x", "0">>
        /\ felt # <<>> => TwoDigitsPerByte(hex, SignificantBytes(felt))
        /\ felt = from_u64(255) => hex = <<"0", "x", "f", "f">>
        /\ felt = from_u64(10) => hex = <<"0", "x", "0", "a">>
        /\ felt = from_u64(1234567890)
              => hex = <<"0", "x", "4", "9", "9", "6", "0", "2", "d", "2">>
        /\ felt = U32Max => hex = <<"0", "x">> \o [i \in 1..8 |-> "f"]
        /\ felt = U64Max => hex = <<"0", "x">> \o [i \in 1..16 |-> "f"]
        /\ felt = FeltMax => Len(hex) = 66 /\ hex[1] = "0" /\ hex[2] = "x"

\* to_hex has returned 0x0a00 for 2560: the zero byte inside the value is
\* written, the byte 10 has its leading zero digit
C14_Witness ==
    /\ felt = from_u64(2560)
    /\ hex = <<"0", "x", "0", "a", "0", "0">>

\* ----------------------------------------------------------------- C15

\* the pass of worker p logged a cursor error
CursorErrorLogged(p) ==
    \E i \in DOMAIN logger[p] : logger[p][i] = <<"severe", "Error while processing">>

\* the pass of worker p has written a marker
WroteMarker(p) ==
    Returned(p) /\ \E id \in VisitedIn(pass[p], kind[p]) : Marked(kind[p], id)

\* C15 as stated: the marker collection is unchanged from the start of the
\* pass until every resolved record has been processed: no event the pass
\* visits has a marker while the pass is in its loop, and when the pass has
\* written a marker the cursor has yielded every record the pass resolved.
C15_WriteAfterEveryResolvedRecord ==
    /\ pc["w1"] = "loop" =>
          \A id \in VisitedIn(pass["w1"], kind["w1"]) : ~Marked(kind["w1"], id)
    /\ WroteMarker("w1") => yielded["w1"] = Len(resolved["w1"])

\* the store changes in the last step of the pass only, once the cursor has
\* nothing more to yield: every resolved record has been yielded, or a
\* cursor error ended the iteration before
WriteAfterLoop(p) ==
    /\ (pc[p] = "loop" /\ pc'[p] = "loop") => db' = db
    /\ db' # db =>
          /\ Returns(p)
          /\ cursor[p] = <<>>
          /\ yielded[p] = Len(resolved[p]) \/ CursorErrorLogged(p)

\* a request is sent inside the loop only, by the pass that runs it: none in
\* the step that resolves, none in or after the step that writes the markers
DeliveryInsideLoop(p) ==
    posts' # posts =>
        /\ pc[p] = "loop" /\ pc'[p] = "loop"
        /\ Len(posts') = Len(posts) + 1
        /\ SubSeq(posts', 1, Len(posts)) = posts
        /\ posts'[Len(posts')].pass = pass[p]

\* C15, amended: within a pass the order is resolve, then build-and-deliver
\* for each record the cursor yields, then one marker write: the store is
\* unchanged from the start of the pass until the cursor has nothing more to
\* yield (every resolved record processed, unless a cursor error ended the
\* iteration early), and no delivery of the pass happens after the write.
C15_ResolveDeliverThenWrite ==
    [][WriteAfterLoop("w1") /\ DeliveryInsideLoop("w1")]_vars

\* a pass resolved two sales, sent a request for each and then wrote their
\* two markers
C15_Witness ==
    /\ Returned("w1") /\ pass["w1"] = 1 /\ kind["w1"] = "sale" /\ ~CursorErrorLogged("w1")
    /\ Len(resolved["w1"]) = 2 /\ yielded["w1"] = 2
    /\ Len(posts) = 2
    /\ Len(db.processed) = 2

\* ----------------------------------------------------------------- C16

\* the requests the pass of worker p sent for the event id of its kind
RequestsInPass(p, id) == {i \in PostsOfPass(p) : posts[i]._id = id}

\* the record at position j of the resolved list of worker p was yielded,
\* decoded, and has a valid first metadata address
DecodedWithValidEmail(p, j) ==
    LET e == Event(kind[p], resolved[p][j]) IN
    /\ j <= yielded[p]
    /\ Decodes(kind[p], e)
    /\ is_valid(MetadataOf(e)[1].email)

\* C16: delivery is fire-and-forget: in a pass every resolved record gets
\* at most one POST, whatever its outcome, and it gets one exactly when it
\* was decoded and its first metadata address is valid.
C16_OnePostIffDecodedAndValid ==
    pass["w1"] > 0 =>
        /\ \A i \in PostsOfPass("w1") : posts[i].coll = SourceColl(kind["w1"])
        /\ \A j \in 1..Len(resolved["w1"]) :
              Cardinality(RequestsInPass("w1", resolved["w1"][j]))
                = IF DecodedWithValidEmail("w1", j) THEN 1 ELSE 0

\* a pass has returned: the request of its first record failed in transport
\* and was not sent again, its second record was rejected for its address
\* and got none
C16_Witness ==
    /\ Returned("w1") /\ yielded["w1"] = 2
    /\ \E i \in RequestsInPass("w1", resolved["w1"][1]) :
         posts[i].outcome = "transport_error"
    /\ Cardinality(PostsOfPass("w1")) = 1
    /\ resolved["w1"][2] \in YieldedWithInvalidEmail("w1")

\* ----------------------------------------------------------------- C17

\* the eligibility query of the pass of worker p failed
QueryFailed(p) == pc[p] = "panicked"

\* once the pass of worker p has logged a cursor error it sends no request
NoDeliveryAfterCursorError(p) ==
    (CursorErrorLogged(p) /\ pass'[p] = pass[p]) => posts' = posts

\* C17: a store query failure is logged and ends the work of the pass: a
\* failed eligibility query leaves a log entry, and after a cursor error no
\* further record of the pass is delivered.
C17_QueryErrorLoggedAndAborts ==
    /\ [](\A p \in Workers : QueryFailed(p) => logger[p] # <<>>)
    /\ [][NoDeliveryAfterCursorError("w1")]_vars

\* ----------------------------------------------------------------- C18

OtherKind(k) == IF k = "sale" THEN "renewal" ELSE "sale"

\* sequence a is the beginning of sequence b
IsPrefix(a, b) == Len(a) <= Len(b) /\ SubSeq(b, 1, Len(a)) = a

\* a step of the pass of worker p leaves every collection but the marker
\* collection of its kind as it was, only appends to that one, and leaves
\* the eligible events of the other kind the same
OwnMarkersOnly(p) ==
    \A k \in Kinds :
        kind'[p] = k =>
            /\ \A c \in DOMAIN db \ {MarkerColl(k)} : db'[c] = db[c]
            /\ IsPrefix(db[MarkerColl(k)], db'[MarkerColl(k)])
            /\ Eligible(OtherKind(k))' = Eligible(OtherKind(k))

\* C18: a pass only adds documents to the marker collection of its own
\* kind: a sale pass leaves 'ar_processed' as it was, a renewal pass leaves
\* 'processed' as it was, neither changes the event, metadata or
\* email_groups collections, and the eligible events of the other kind stay
\* the same.
C18_PassWritesOwnMarkersOnly ==
    [][OwnMarkersOnly("w1")]_vars

\* a renewal pass has written the marker of transaction T1 and the sale of
\* the same transaction is eligible as before, 'processed' being empty
C18_Witness ==
    /\ Returned("w1") /\ kind["w1"] = "renewal" /\ pass["w1"] = 1
    /\ \E i \in DOMAIN db.ar_processed : db.ar_processed[i].tx_hash = "T1"
    /\ db.processed = <<>>
    /\ Event("sale", 1).tx_hash = "T1" /\ 1 \in Eligible("sale")

\* ----------------------------------------------------------------- C19

\* the marker collection of kind k holds a marker for key
KeyMarked(k, key) ==
    \E i \in DOMAIN db[MarkerColl(k)] : db[MarkerColl(k)][i][KeyField(k)] = key

\* once the dedup key of an event has a marker, no step resolves the event,
\* visits it or sends a request for it, be the event in the store already or
\* added to it by the step; and a marker never leaves the store
ExcludedOnceKeyMarked(p) ==
    \A k \in Kinds :
        /\ IsPrefix(db[MarkerColl(k)], db'[MarkerColl(k)])
        /\ \A e \in Events(k)' :
              KeyMarked(k, e[KeyField(k)]) =>
                  /\ PostsFor(k, e._id)' = PostsFor(k, e._id)
                  /\ \A n \in 1..MaxPasses : <<n, k, e._id>> \in visits' => <<n, k, e._id>> \in visits
                  /\ (pc[p] = "idle" /\ pc'[p] = "loop" /\ kind'[p] = k)
                        => e._id \notin Range(resolved'[p])

\* the positions of the resolved list of worker p whose event shares its
\* dedup key with another resolved event of the pass
SharedKeyPositions(p) ==
    {j \in 1..Len(resolved[p]) :
        \E i \in 1..Len(resolved[p]) :
            i # j /\ DedupKey(kind[p], resolved[p][i]) = DedupKey(kind[p], resolved[p][j])}

\* C19 as stated: events are deduplicated by key, not per event: an event
\* whose key has a marker is excluded from every later pass and never
\* notified, also when it arrives after the marker, whereas two events with
\* the same key that a pass resolves together are both visited and both
\* delivered by that pass.
C19_SameKeyBothDelivered ==
    /\ [](Returned("w1") =>
            \A j \in SharedKeyPositions("w1") :
                /\ <<pass["w1"], kind["w1"], resolved["w1"][j]>> \in visits
                /\ RequestsInPass("w1", resolved["w1"][j]) # {})
    /\ [][ExcludedOnceKeyMarked("w1")]_vars

\* C19, amended: events are deduplicated by key, not per event: an event
\* whose key has a marker is excluded from every later pass and never
\* notified, also when it arrives after the marker, whereas two events with
\* the same key that a pass resolves together are handled one by one: each
\* is visited when the cursor yields it and it decodes, and each is
\* delivered when moreover the first address of its metadata is valid.
C19_DedupByKeyAcrossPasses ==
    /\ [](\A j \in SharedKeyPositions("w1") :
            LET id == resolved["w1"][j]
                e == Event(kind["w1"], id)
            IN  (j <= yielded["w1"] /\ Decodes(kind["w1"], e)) =>
                    /\ <<pass["w1"], kind["w1"], id>> \in visits
                    /\ is_valid(MetadataOf(e)[1].email) => RequestsInPass("w1", id) # {})
    /\ [][ExcludedOnceKeyMarked("w1")]_vars

\* a first pass visited and delivered two sales of one meta_hash and wrote
\* their markers; a third sale of that meta_hash arrived afterwards, and a
\* second sale pass has returned without visiting or notifying it
C19_Witness ==
    /\ Returned("w1") /\ pass["w1"] = 2 /\ kind["w1"] = "sale"
    /\ VisitedIn(1, "sale") = {1, 2}
    /\ DedupKey("sale", 1) = DedupKey("sale", 2)
    /\ PostsFor("sale", 1) # {} /\ PostsFor("sale", 2) # {}
    /\ 3 \in EventIds("sale")
    /\ DedupKey("sale", 3) = DedupKey("sale", 1)
    /\ MetadataOf(Event("sale", 3)) # <<>>
    /\ PostsFor("sale", 3) = {}
    /\ \A n \in 1..MaxPasses : <<n, "sale", 3>> \notin visits

\* ----------------------------------------------------------------- C20

\* the joined document carries the metadata records of its event, at least one
HasItsMetadata(k, document) ==
    /\ document.metadata # <<>>
    /\ document.metadata = MetadataOf(Event(k, document._id))

\* C20: every document a pass hands to process_sale or
\* process_toggle_renewal has a non-empty metadata list, so metadata[0] is
\* there: an event without a metadata record is not resolved, not visited
\* and gets no request.
C20_BuilderAlwaysHasMetadata ==
    /\ \A p \in Workers : \A i \in DOMAIN cursor[p] : HasItsMetadata(kind[p], cursor[p][i])
    /\ \A k \in Kinds : \A id \in EventIds(k) :
          MetadataOf(Event(k, id)) = <<>> =>
              /\ \A p \in Workers : pc[p] = "loop" /\ kind[p] = k => id \notin Range(resolved[p])
              /\ \A n \in 1..MaxPasses : <<n, k, id>> \notin visits
              /\ PostsFor(k, id) = {}
    /\ \A i \in DOMAIN posts :
          LET k == IF posts[i].coll = "sales" THEN "sale" ELSE "renewal" IN
          HasParam(posts[i].url, "?email=", MetadataOf(Event(k, posts[i]._id))[1].email)

\* two sale passes have returned; sale 1 has no metadata record and was
\* left out of both, sale 2 was visited and its request carries the first
\* address of its metadata
C20_Witness ==
    /\ Returned("w1") /\ pass["w1"] = 2 /\ kind["w1"] = "sale"
    /\ MetadataOf(Event("sale", 1)) = <<>>
    /\ Decodes("sale", Event("sale", 1))
    /\ ~Marked("sale", 1)
    /\ VisitedIn(1, "sale") = {2} /\ VisitedIn(2, "sale") = {}
    /\ \E i \in PostsFor("sale", 2) : HasParam(posts[i].url, "?email=", "a@b.com")

====
